---------------------------- MODULE Spec2Model ----------------------------
(***************************************************************************)
(* A model of the request builder of package room (request.go): a Request  *)
(* is constructed by NewRequest(path, opts...), changed by SetBaseUrl,     *)
(* MergeHeader and SetContextBuilder, and dispatched by Send.              *)
(*                                                                         *)
(* Go strings that the code slices or concatenates (path, base URL, query  *)
(* string, URI) are sequences of one-character strings, so that s[1:],     *)
(* s[:len(s)-1], s[len(b)+1:] and + are SubSeq and \o, and a slice out of  *)
(* range is a panic.  Strings the code only compares or passes on (method, *)
(* content type, header keys and values) are TLA+ strings.                 *)
(* A nil interface value or pointer is Nil; header sets live in a heap,    *)
(* since the Request holds them by reference.                              *)
(***************************************************************************)
EXTENDS Integers, Sequences, FiniteSets, TLC

VARIABLES
    path,            \* Request.path
    URI,             \* Request.URI (the string NewURI was given)
    Method,          \* Request.Method
    Header,          \* Request.Header: Nil or a reference into heap
    Query,           \* Request.Query: Nil or a query set
    BodyParser,      \* Request.BodyParser
    contextBuilder,  \* Request.contextBuilder: Nil or a builder
    Cookies,         \* Request.Cookies (a nil slice is the empty sequence)
    heap,            \* the header sets of the caller, by reference
    opts,            \* the options NewRequest was given
    supplied,        \* per header set: its entries when the caller passed it in
    ret,             \* the most recent call and what it returned
    uris,            \* the URI of every dispatch so far, in order
    nops,            \* number of calls made on the Request
    panicked         \* the most recent call panicked (the program stopped)

vars == <<path, URI, Method, Header, Query, BodyParser, contextBuilder,
          Cookies, heap, opts, supplied, ret, uris, nops, panicked>>

\* Bound: calls made on one Request after its construction.
MaxOps == 3

Nil == [nil |-> TRUE]

-----------------------------------------------------------------------------
(* strings *)

HasPrefix(s, prefix) ==
    /\ Len(prefix) <= Len(s)
    /\ SubSeq(s, 1, Len(prefix)) = prefix

HasSuffix(s, suffix) ==
    /\ Len(suffix) <= Len(s)
    /\ SubSeq(s, Len(s) - Len(suffix) + 1, Len(s)) = suffix

\* s[n:] of Go for 0 <= n <= len(s); the caller checks the range.
SliceFrom(s, n) == SubSeq(s, n + 1, Len(s))

Slash == <<"/">>

-----------------------------------------------------------------------------
(* the inputs *)

Paths == { <<>>, <<"a">>, <<"a", "b">>, <<"a", "/", "b">> }

Bases == { <<>>, <<"a">>, <<"/", "a">>, <<"a", "/">> }

HeaderRefs == { "H1", "H2" }

\* The caller's header sets as first built: a sequence of (key, value).
InitialHeap ==
    [h \in HeaderRefs |->
        IF h = "H1"
        THEN << <<"Content-Type", "text/plain">> >>
        ELSE << <<"content-type", "text/html">>, <<"Accept", "*/*">> >>]

Ref(h) == [ref |-> h]

QuerySets == { [params |-> <<>>], [params |-> << <<"k", "v">> >>] }

Builders == { [timeout |-> 5] }

CookieLists == { <<"c1", "c2">> }

\* The value of each option of NewRequest, Nil when the option is not given.
OptionLists ==
    [ method  : {Nil, [m |-> "POST"], [m |-> "BAD METHOD"]},
      body    : {Nil, [parser |-> "json"]},
      query   : {Nil} \cup QuerySets,
      header  : {Nil, Ref("H1")},
      ctx     : {Nil} \cup Builders,
      cookies : {Nil} \cup {[list |-> c] : c \in CookieLists} ]

NoOptions ==
    [method |-> Nil, body |-> Nil, query |-> Nil, header |-> Nil,
     ctx |-> Nil, cookies |-> Nil]

-----------------------------------------------------------------------------
(* construction *)

GET == "GET"

dumpBody == [parser |-> "dumpBody"]

\* NewRequest without its two fallbacks (lines 45-51 left out).
NewRequestNoFallback(p, o) ==
    [ path           |-> p,
      URI            |-> <<>>,
      Method         |-> IF o.method = Nil THEN "" ELSE o.method.m,
      Header         |-> o.header,
      Query          |-> o.query,
      BodyParser     |-> o.body,
      contextBuilder |-> o.ctx,
      Cookies        |-> IF o.cookies = Nil THEN <<>> ELSE o.cookies.list ]

\* The Request NewRequest(path, opts...) returns.
NewRequest(p, o) ==
    [ path           |-> p,
      URI            |-> <<>>,
      Method         |-> IF o.method = Nil THEN GET ELSE o.method.m,
      Header         |-> o.header,
      Query          |-> o.query,
      BodyParser     |-> IF o.body = Nil THEN dumpBody ELSE o.body,
      contextBuilder |-> o.ctx,
      Cookies        |-> IF o.cookies = Nil THEN <<>> ELSE o.cookies.list ]

Init ==
    \E p \in Paths, o \in OptionLists :
        LET r == NewRequest(p, o) IN
        /\ path = r.path
        /\ URI = r.URI
        /\ Method = r.Method
        /\ Header = r.Header
        /\ Query = r.Query
        /\ BodyParser = r.BodyParser
        /\ contextBuilder = r.contextBuilder
        /\ Cookies = r.Cookies
        /\ heap = InitialHeap
        /\ opts = o
        /\ supplied = [h \in HeaderRefs |->
                          IF o.header = Ref(h) THEN [entries |-> InitialHeap[h]]
                          ELSE Nil]
        /\ ret = [op |-> "NewRequest"]
        /\ uris = <<>>
        /\ nops = 0
        /\ panicked = FALSE

-----------------------------------------------------------------------------
(* SetBaseUrl *)

\* The path SetBaseUrl(baseUrl) leaves in a Request whose path is p, and
\* whether the slice r.path[len(baseUrl)+1:] panicked (the path then keeps
\* the value of the assignment before it).
SetBaseUrlResult(p, baseUrl) ==
    LET p1 == IF HasPrefix(p, Slash) THEN SliceFrom(p, 1) ELSE p
        b1 == IF HasSuffix(baseUrl, Slash)
              THEN SubSeq(baseUrl, 1, Len(baseUrl) - 1) ELSE baseUrl
    IN  IF HasPrefix(p1, b1)
        THEN IF Len(b1) + 1 > Len(p1)
             THEN [path |-> p1, panic |-> TRUE]
             ELSE [path |-> b1 \o Slash \o SliceFrom(p1, Len(b1) + 1),
                   panic |-> FALSE]
        ELSE [path |-> b1 \o Slash \o p1, panic |-> FALSE]

SetBaseUrl(baseUrl) ==
    /\ ~panicked
    /\ nops < MaxOps
    /\ LET res == SetBaseUrlResult(path, baseUrl) IN
        /\ path' = res.path
        /\ panicked' = res.panic
    /\ ret' = [op |-> "SetBaseUrl", arg |-> baseUrl]
    /\ nops' = nops + 1
    /\ UNCHANGED <<URI, Method, Header, Query, BodyParser, contextBuilder,
                   Cookies, heap, opts, supplied, uris>>

-----------------------------------------------------------------------------
(* MergeHeader, SetContextBuilder *)

\* IHeader.Merge: every entry of other is folded into the receiver, which
\* keeps its own entries; an entry the receiver already holds is not held
\* twice.
RECURSIVE Merge(_, _)
Merge(receiver, other) ==
    IF other = <<>> THEN receiver
    ELSE Merge(IF \E i \in DOMAIN receiver : receiver[i] = other[1]
               THEN receiver ELSE Append(receiver, other[1]),
               Tail(other))

\* MergeHeader that adopts the supplied set even when the Request has one.
MergeHeaderReplaces(header) ==
    /\ ~panicked
    /\ nops < MaxOps
    /\ Header' = IF header # Nil THEN header ELSE Header
    /\ heap' = heap
    /\ supplied' = IF header # Nil /\ supplied[header.ref] = Nil
                   THEN [supplied EXCEPT ![header.ref] = [entries |-> heap[header.ref]]]
                   ELSE supplied
    /\ ret' = [op |-> "MergeHeader", arg |-> header]
    /\ nops' = nops + 1
    /\ UNCHANGED <<path, URI, Method, Query, BodyParser, contextBuilder,
                   Cookies, opts, uris, panicked>>

MergeHeader(header) ==
    /\ ~panicked
    /\ nops < MaxOps
    /\ IF header # Nil
       THEN IF Header = Nil
            THEN /\ Header' = header
                 /\ heap' = heap
            ELSE /\ Header' = Header
                 /\ heap' = [heap EXCEPT
                               ![Header.ref] = Merge(heap[Header.ref], heap[header.ref])]
       ELSE UNCHANGED <<Header, heap>>
    /\ supplied' = IF header # Nil /\ supplied[header.ref] = Nil
                   THEN [supplied EXCEPT ![header.ref] = [entries |-> heap[header.ref]]]
                   ELSE supplied
    /\ ret' = [op |-> "MergeHeader", arg |-> header]
    /\ nops' = nops + 1
    /\ UNCHANGED <<path, URI, Method, Query, BodyParser, contextBuilder,
                   Cookies, opts, uris, panicked>>

SetContextBuilder(cb) ==
    /\ ~panicked
    /\ nops < MaxOps
    /\ contextBuilder' = IF cb = Nil THEN contextBuilder ELSE cb
    /\ ret' = [op |-> "SetContextBuilder", arg |-> cb]
    /\ nops' = nops + 1
    /\ UNCHANGED <<path, URI, Method, Header, Query, BodyParser, Cookies,
                   heap, opts, supplied, uris, panicked>>

-----------------------------------------------------------------------------
(* the collaborators of request() and Send() *)

headerKeyContentType == "Content-Type"

headerValueApplicationJson == "application/json"

\* IBodyParser.ContentType: the no-op parser reports none.
ContentType(bp) ==
    IF bp = dumpBody THEN "" ELSE headerValueApplicationJson

\* IBodyParser.Parse: the body, as a sequence of bytes; the no-op parser's
\* is empty.
Parse(bp) ==
    IF bp = dumpBody THEN <<>> ELSE <<"{", "}">>

\* IQuery.String: key=value pairs joined by &.
RECURSIVE QueryString(_)
QueryString(params) ==
    IF params = <<>> THEN <<>>
    ELSE LET kv == <<params[1][1], "=", params[1][2]>> IN
         IF Len(params) = 1 THEN kv
         ELSE kv \o <<"&">> \o QueryString(Tail(params))

\* The duration of the context NewContextBuilder(30 * time.Second) builds.
DefaultTimeout == 30

\* IContextBuilder.Build: a context that expires after the builder's duration.
Build(cb) == cb.timeout

\* The keys of http.Header are canonical MIME header keys.
CanonicalKey(k) == IF k = "content-type" THEN headerKeyContentType ELSE k

CanonicalKeys == { headerKeyContentType, "Accept" }

\* http.Header.Add and http.Header.Set.
HeaderAdd(h, k, v) ==
    [h EXCEPT ![CanonicalKey(k)] = Append(h[CanonicalKey(k)], v)]

HeaderSet(h, k, v) ==
    [h EXCEPT ![CanonicalKey(k)] = <<v>>]

\* Properties().Each(add): the entries are added in their order.
RECURSIVE AddAll(_, _)
AddAll(h, entries) ==
    IF entries = <<>> THEN h
    ELSE AddAll(HeaderAdd(h, entries[1][1], entries[1][2]), Tail(entries))

\* http.NewRequestWithContext refuses a method that is no token; the error is
\* dropped by request(), which keeps the nil *http.Request.
ValidMethod(m) == m \in { "", "GET", "POST" }

NewRequestWithContext(ctx, method, url, body) ==
    IF ValidMethod(method)
    THEN [ method  |-> IF method = "" THEN "GET" ELSE method,
           url     |-> url,
           ctx     |-> ctx,
           body    |-> body,
           header  |-> [k \in CanonicalKeys |-> <<>>],
           cookies |-> <<>> ]
    ELSE Nil

\* The outcomes of http.Client.Do for a request it is handed.
TransportOutcomes ==
    { [failed |-> TRUE,  err |-> "connection refused"],
      [failed |-> FALSE, status |-> 200],
      [failed |-> FALSE, status |-> 500] }

NewErrorResponse(req, err) == [variant |-> "error", req |-> req, err |-> err]

NewResponse(response, req) ==
    [variant |-> "success", status |-> response.status, req |-> req]

-----------------------------------------------------------------------------
(* request, Send *)

\* The *http.Request request() returns once NewRequestWithContext gave
\* req0: the header set's entries added, the content type set, the cookies
\* attached.
Decorate(req0, entries, contentType) ==
    LET req1 == [req0 EXCEPT !.header = AddAll(req0.header, entries)]
        req2 == IF contentType # ""
                THEN [req1 EXCEPT !.header =
                         HeaderSet(req1.header, headerKeyContentType, contentType)]
                ELSE req1
    IN  [req2 EXCEPT !.cookies = Cookies]

\* request() adding the body's content type to the header set's instead of
\* setting it.
requestAddsContentType ==
    LET context == IF contextBuilder # Nil
                   THEN Build(contextBuilder)
                   ELSE DefaultTimeout
        uri == IF Query # Nil /\ QueryString(Query.params) # <<>>
               THEN path \o <<"?">> \o QueryString(Query.params)
               ELSE path
        req0 == NewRequestWithContext(context, Method, uri, Parse(BodyParser))
        entries == IF Header # Nil THEN heap[Header.ref] ELSE <<>>
        contentType == ContentType(BodyParser)
    IN  IF req0 = Nil
        THEN [uri |-> uri, ctx |-> context, req |-> Nil,
              panic |-> (entries # <<>> \/ contentType # "" \/ Len(Cookies) > 0)]
        ELSE [uri |-> uri, ctx |-> context, panic |-> FALSE,
              req |-> Decorate(req0,
                               IF contentType # ""
                               THEN Append(entries, <<headerKeyContentType, contentType>>)
                               ELSE entries,
                               "")]

\* request() appending the query string of every query set, empty or not.
requestAlwaysAppends ==
    LET context == IF contextBuilder # Nil
                   THEN Build(contextBuilder)
                   ELSE DefaultTimeout
        uri == IF Query # Nil
               THEN path \o <<"?">> \o QueryString(Query.params)
               ELSE path
        req0 == NewRequestWithContext(context, Method, uri, Parse(BodyParser))
        entries == IF Header # Nil THEN heap[Header.ref] ELSE <<>>
        contentType == ContentType(BodyParser)
    IN  IF req0 = Nil
        THEN [uri |-> uri, ctx |-> context, req |-> Nil,
              panic |-> (entries # <<>> \/ contentType # "" \/ Len(Cookies) > 0)]
        ELSE [uri |-> uri, ctx |-> context, panic |-> FALSE,
              req |-> Decorate(req0, entries, contentType)]

\* request(): the URI it stores in the Request, the context it built, the
\* *http.Request it returns (Nil when NewRequestWithContext failed, its error
\* dropped), and whether request() itself panicked, using that nil request to
\* add a header, set the content type or attach a cookie.
request ==
    LET context == IF contextBuilder # Nil
                   THEN Build(contextBuilder)
                   ELSE DefaultTimeout
        uri == IF Query # Nil /\ QueryString(Query.params) # <<>>
               THEN path \o <<"?">> \o QueryString(Query.params)
               ELSE path
        req0 == NewRequestWithContext(context, Method, uri, Parse(BodyParser))
        entries == IF Header # Nil THEN heap[Header.ref] ELSE <<>>
        contentType == ContentType(BodyParser)
    IN  IF req0 = Nil
        THEN [uri |-> uri, ctx |-> context, req |-> Nil,
              panic |-> (entries # <<>> \/ contentType # "" \/ Len(Cookies) > 0)]
        ELSE [uri |-> uri, ctx |-> context, panic |-> FALSE,
              req |-> Decorate(req0, entries, contentType)]

\* What Send() leaves behind once request() gave b and the transport was
\* handed the request `calls` times, answering outcome: the URI request()
\* stored, and the (Response, error) returned. c.Do dereferences a nil
\* request, so Send panics when request() returned none.
Dispatch(b, outcome, calls) ==
    /\ URI' = b.uri
    /\ uris' = Append(uris, b.uri)
    /\ IF b.req = Nil
       THEN /\ panicked' = TRUE
            /\ ret' = [op |-> "Send", kind |-> "panic", ctx |-> b.ctx,
                       req |-> Nil, doCalls |-> IF b.panic THEN 0 ELSE 1]
       ELSE /\ panicked' = FALSE
            /\ ret' = [op |-> "Send", kind |-> "returned", ctx |-> b.ctx,
                       req |-> b.req, doCalls |-> calls,
                       transport |-> outcome,
                       response |-> IF outcome.failed
                                    THEN NewErrorResponse(b.req, outcome.err)
                                    ELSE NewResponse(outcome, b.req)]

\* Send() trying the transport a second time after a failure.
SendRetries(outcome) ==
    /\ ~panicked
    /\ nops < MaxOps
    /\ Dispatch(request, outcome, IF outcome.failed THEN 2 ELSE 1)
    /\ nops' = nops + 1
    /\ UNCHANGED <<path, Method, Header, Query, BodyParser, contextBuilder,
                   Cookies, heap, opts, supplied>>

\* Send() consuming the cookies it attached.
SendConsumesCookies(outcome) ==
    /\ ~panicked
    /\ nops < MaxOps
    /\ Dispatch(request, outcome, 1)
    /\ Cookies' = <<>>
    /\ nops' = nops + 1
    /\ UNCHANGED <<path, Method, Header, Query, BodyParser, contextBuilder,
                   heap, opts, supplied>>

\* Send(): outcome is what the transport does with the request it is handed.
Send(outcome) ==
    /\ ~panicked
    /\ nops < MaxOps
    /\ Dispatch(request, outcome, 1)
    /\ nops' = nops + 1
    /\ UNCHANGED <<path, Method, Header, Query, BodyParser, contextBuilder,
                   Cookies, heap, opts, supplied>>

-----------------------------------------------------------------------------

Next ==
    \/ \E b \in Bases : SetBaseUrl(b)
    \/ \E h \in {Nil} \cup {Ref(x) : x \in HeaderRefs} : MergeHeader(h)
    \/ \E cb \in {Nil, [timeout |-> 7]} : SetContextBuilder(cb)
    \/ \E outcome \in TransportOutcomes : Send(outcome)

Spec == Init /\ [][Next]_vars

-----------------------------------------------------------------------------
(* properties *)

\* The step just taken is a call of op.
Called(op) == nops' # nops /\ ret'.op = op

\* C1: SetBaseUrl is idempotent: a call of SetBaseUrl(b) right after a call
\* of SetBaseUrl(b) with the same b completes and leaves the path as the
\* first call left it.
C1_SetBaseUrlIdempotent ==
    [][(Called("SetBaseUrl") /\ ret.op = "SetBaseUrl" /\ ret.arg = ret'.arg) =>
          /\ ~panicked'
          /\ path' = path]_vars

\* The path C8 states for SetBaseUrl(b) on a Request whose path is p.
StatedPath(p, b) ==
    LET p1 == IF HasPrefix(p, Slash) THEN SliceFrom(p, 1) ELSE p
        b1 == IF HasSuffix(b, Slash) THEN SubSeq(b, 1, Len(b) - 1) ELSE b
        rest == SliceFrom(p1, Len(b1))
    IN  IF HasPrefix(p1, b1)
        THEN b1 \o Slash \o (IF HasPrefix(rest, Slash) THEN SliceFrom(rest, 1) ELSE rest)
        ELSE b1 \o Slash \o p1

\* C8: one call of SetBaseUrl(b) completes and leaves the path b' + "/" + p'
\* with the duplicated prefix b' of p' and the separator after it removed,
\* and no other character of the path removed.
C8_SetBaseUrlResult ==
    [][Called("SetBaseUrl") =>
          /\ ~panicked'
          /\ path' = StatedPath(path, ret'.arg)]_vars

\* C2: every call of Send() returns, and returns a success-response or an
\* error-response.
C2_SendTotal ==
    ret.op = "Send" =>
        /\ ret.kind = "returned"
        /\ ret.response.variant \in {"success", "error"}

\* The values the entries of a header set give the key Content-Type.
RECURSIVE ContentTypeValues(_)
ContentTypeValues(entries) ==
    IF entries = <<>> THEN <<>>
    ELSE IF entries[1][1] \in {"Content-Type", "content-type"}
         THEN <<entries[1][2]>> \o ContentTypeValues(Tail(entries))
         ELSE ContentTypeValues(Tail(entries))

HeaderEntries == IF Header = Nil THEN <<>> ELSE heap[Header.ref]

\* C3: the request Send() built carries the single Content-Type value the
\* body parser reports when that is not empty, whatever Content-Type entries
\* the header set has, and the header set's Content-Type values otherwise.
C3_ContentTypePrecedence ==
    (ret.op = "Send" /\ ret.req # Nil) =>
        LET c == ContentType(BodyParser)
            values == ret.req.header["Content-Type"]
        IN  IF c # "" THEN values = <<c>>
            ELSE values = ContentTypeValues(HeaderEntries)

\* A request was built from a body parser reporting application/json and a
\* header set with several Content-Type entries.
C3_Witness ==
    /\ ret.op = "Send"
    /\ ret.req # Nil
    /\ ContentType(BodyParser) = "application/json"
    /\ Len(ContentTypeValues(HeaderEntries)) >= 2
    /\ ret.req.header["Content-Type"] = <<"application/json">>

\* The URI the query-append law gives a path and a query set.
ResolvedURI(p, q) ==
    IF q = Nil \/ QueryString(q.params) = <<>> THEN p
    ELSE p \o <<"?">> \o QueryString(q.params)

\* C4: a Send() leaves the path, Method, Header (and the entries of every
\* header set), Query, BodyParser, contextBuilder and Cookies as they were,
\* and rewrites the URI to the one the path and query of that moment give.
C4_SendKeepsOptions ==
    [][Called("Send") =>
          /\ path' = path
          /\ Method' = Method
          /\ Header' = Header
          /\ heap' = heap
          /\ Query' = Query
          /\ BodyParser' = BodyParser
          /\ contextBuilder' = contextBuilder
          /\ Cookies' = Cookies
          /\ URI' = ResolvedURI(path, Query)]_vars

\* Two dispatches with a SetBaseUrl in between: the second one's URI is the
\* one of the new path, and the cookies are still there.
C4_Witness ==
    /\ ret.op = "Send"
    /\ ~panicked
    /\ Len(uris) = 2
    /\ uris[1] # uris[2]
    /\ URI = uris[2]
    /\ URI = ResolvedURI(path, Query)
    /\ Cookies # <<>>
    /\ Query # Nil

\* C5: a Request made with no options has method GET, the no-op body parser
\* (empty body, no content type), no query set and no cookies, has no header
\* set and no context builder until one is given, and is dispatched with a
\* context of 30 seconds as long as no context builder was given.
C5_Defaults ==
    opts = NoOptions =>
        /\ Method = "GET"
        /\ BodyParser = dumpBody
        /\ Parse(BodyParser) = <<>>
        /\ ContentType(BodyParser) = ""
        /\ Query = Nil
        /\ Cookies = <<>>
        /\ nops = 0 => (Header = Nil /\ contextBuilder = Nil)
        /\ (ret.op = "Send" /\ contextBuilder = Nil) =>
              /\ ret.ctx = 30
              /\ ret.req # Nil
              /\ ret.req.ctx = 30
              /\ ret.req.method = "GET"
              /\ ret.req.body = <<>>

\* A Request made with no options was dispatched with the default context.
C5_Witness ==
    /\ opts = NoOptions
    /\ ret.op = "Send"
    /\ ret.kind = "returned"
    /\ contextBuilder = Nil
    /\ ret.req.ctx = 30

\* C6: after a dispatch the URI is the path, followed by "?" and the query
\* string when the Request has a query set whose string form is not empty.
C6_QueryAppend ==
    ret.op = "Send" =>
        /\ URI = ResolvedURI(path, Query)
        /\ ret.req # Nil => ret.req.url = URI
        /\ (Query = Nil \/ Query.params = <<>>) => URI = path
        /\ (Query # Nil /\ Query.params = << <<"k", "v">> >>) =>
              URI = path \o <<"?", "k", "=", "v">>

\* Dispatches of a Request with a non-empty query set and of one with an
\* empty query set.
C6_Witness ==
    /\ ret.op = "Send"
    /\ Len(uris) = 1
    /\ Query # Nil
    /\ Query.params # <<>>
    /\ path # <<>>
    /\ URI = path \o <<"?", "k", "=", "v">>

\* C7: a Send() calls the transport at most once, and exactly once with the
\* request it built; a transport failure becomes the error-response carrying
\* that request and the failure, and a received response, whatever its
\* status, the success-response.
C7_SingleDispatch ==
    ret.op = "Send" =>
        /\ ret.doCalls <= 1
        /\ ret.req # Nil =>
              /\ ret.kind = "returned"
              /\ ret.doCalls = 1
              /\ IF ret.transport.failed
                 THEN ret.response = [variant |-> "error", req |-> ret.req,
                                      err |-> ret.transport.err]
                 ELSE ret.response = [variant |-> "success", req |-> ret.req,
                                      status |-> ret.transport.status]

\* The transport failed and Send() returned the error-response.
C7_Witness ==
    /\ ret.op = "Send"
    /\ ret.req # Nil
    /\ ret.transport.failed
    /\ ret.doCalls = 1
    /\ ret.response.variant = "error"

\* set holds every entry of entries.
Holds(set, entries) ==
    \A i \in DOMAIN entries : \E j \in DOMAIN set : set[j] = entries[i]

\* The Request's header set holds the entries of every set supplied so far.
AllSuppliedHeld ==
    \A h \in HeaderRefs :
        supplied[h] # Nil => (Header # Nil /\ Holds(heap[Header.ref], supplied[h].entries))

\* C9: MergeHeader(nil) leaves the Request as it is; MergeHeader(h) makes h
\* the header set of a Request that has none, and otherwise keeps the
\* Request's set and merges the entries of h into it; hence the Request's
\* set holds the entries of every set supplied.
C9_MergeHeader ==
    [][Called("MergeHeader") =>
          LET h == ret'.arg IN
          /\ h = Nil =>
                /\ heap' = heap
                /\ <<path, URI, Method, Header, Query, BodyParser, contextBuilder, Cookies>>'
                     = <<path, URI, Method, Header, Query, BodyParser, contextBuilder, Cookies>>
          /\ (h # Nil /\ Header = Nil) => (Header' = h /\ heap' = heap)
          /\ (h # Nil /\ Header # Nil) =>
                /\ Header' = Header
                /\ Holds(heap'[Header.ref], heap[Header.ref])
                /\ Holds(heap'[Header.ref], heap[h.ref])
                /\ Holds(heap[Header.ref] \o heap[h.ref], heap'[Header.ref])
                /\ \A x \in HeaderRefs \ {Header.ref} : heap'[x] = heap[x]
          /\ AllSuppliedHeld']_vars

\* A set was merged into the header set the Request already had.
C9_Witness ==
    /\ ret.op = "MergeHeader"
    /\ ret.arg # Nil
    /\ Header # Nil
    /\ Header # ret.arg
    /\ Len(heap[Header.ref]) > Len(InitialHeap[Header.ref])
    /\ AllSuppliedHeld

\* C10: every header set the caller passed in (to WithHeader or MergeHeader)
\* holds the entries it held when it was passed in.
C10_SuppliedUnchanged ==
    \A h \in HeaderRefs :
        supplied[h] # Nil => heap[h] = supplied[h].entries

=============================================================================
